---- MODULE Spec2Model ----
(***************************************************************************)
(* Model of the shadcn-modal-manager lifecycle coordinator: the reducer    *)
(* store (core.ts), the callback ledger and API (api.ts), the handler      *)
(* returned by useModal (hooks.ts) and the mount / delayed-open effects of *)
(* the createModal wrapper (hoc.tsx) with the ModalPlaceholder             *)
(* (context.tsx).                                                          *)
(*                                                                         *)
(* A ledger map holds, per modal id, the promise object of its deferred    *)
(* (or no entry).  A promise object that was handed to a caller is kept as *)
(* a copy with a flag `linked`: the copy is linked while the ledger map    *)
(* still holds that very object, so that a resolve through the map settles *)
(* it.  Overwriting or deleting the map entry unlinks the copy: only the   *)
(* ledger maps hold the resolve function of a deferred.                    *)
(***************************************************************************)
EXTENDS Integers, Sequences, FiniteSets, TLC

\* ---------------------------------------------------------------- bounds
\* the ids the application passes as strings
StringIds == {"m1", "m2"}

\* the components the application passes by reference
Components == {"A", "B"}

\* how many ids getUid generates
MaxUid == 2

\* `_modal_${uidSeed}`
Uid(seed) == "_modal_" \o ToString(seed)

Ids == StringIds \cup {Uid(seed) : seed \in 0..(MaxUid - 1)}
MaxRefs == 1
MaxCloseAll == 1
MaxTimers == 2

\* close results a caller may pass; "undefined" is the JS undefined
Results == {"undefined", "r1"}
UserData == {"d1"}

\* the props a caller may register with a component
Props == {"undefined", "p1"}

\* promise objects
Absent == [settled |-> FALSE, value |-> "absent", calls |-> 0]
Pending == [settled |-> FALSE, value |-> "pending", calls |-> 0]
Fulfilled(v) == [settled |-> TRUE, value |-> v, calls |-> 0]

\* ---------------------------------------------------------------- state
VARIABLES
  modals,                 \* the reducer store: modal id -> ModalState
  ALREADY_MOUNTED,        \* ids whose wrapper component is mounted
  MODAL_REGISTRY,         \* id -> registered component and props
  uidSeed,                \* the counter of getUid
  symModalId,             \* component -> the id cached on it ("none": none)
  dispatchFn,             \* the global dispatch: "default" or "provider"
  declared,               \* ids whose wrapper is declared in the JSX tree
  keepMountedProp,        \* ids whose wrapper is given the keepMounted prop
  modalInfoRef,           \* store entry seen by the last committed render
  modalCallbacks,         \* id -> main deferred
  hideModalCallbacks,     \* id -> close (hide) deferred
  openedCallbacks,        \* id -> opened deferred
  beforeClosedCallbacks,  \* id -> beforeClosed deferred
  modalStates,            \* id -> lifecycle state ("none" = no entry)
  closedPromises,         \* id -> promise handed out by afterClosed()
  doubleResolve,          \* a resolve reached a deferred already resolved
  issued,                 \* ids for which open() returned a ModalRef
  refs,                   \* ModalRefs a caller watches, with their promises
  closeAlls,              \* the closeAll() calls a caller awaits
  timers,                 \* id -> pending timers of markClosed, oldest first
  last,                   \* the operation that ran last
  env                     \* the scenario: what the application does

vars == <<modals, ALREADY_MOUNTED, MODAL_REGISTRY, uidSeed, symModalId,
          dispatchFn, declared,
          keepMountedProp,
          modalInfoRef,
          modalCallbacks, hideModalCallbacks, openedCallbacks,
          beforeClosedCallbacks, modalStates, closedPromises,
          doubleResolve, issued, refs, closeAlls, timers, last, env>>

\* the closeAll() calls still in their await; a call that resolved is
\* kept for the step that resolved it
Waiting(calls) == SelectSeq(calls, LAMBDA call : ~call.done)

\* the message of the Error the default dispatchFn throws
NoDispatchError ==
  "No dispatch method detected. Did you wrap your app with ModalProvider?"

\* the state as one record, for the functions of the library; thrown is
\* the Error the running operation threw, "none" while it runs; returned
\* tells of each reducer call of the operation whether it returned the
\* state object it was given
S == [modals |-> modals, ALREADY_MOUNTED |-> ALREADY_MOUNTED,
      dispatchFn |-> dispatchFn,
      MODAL_REGISTRY |-> MODAL_REGISTRY, declared |-> declared,
      uidSeed |-> uidSeed, symModalId |-> symModalId,
      keepMountedProp |-> keepMountedProp,
      modalInfoRef |-> modalInfoRef,
      modalCallbacks |-> modalCallbacks,
      hideModalCallbacks |-> hideModalCallbacks,
      openedCallbacks |-> openedCallbacks,
      beforeClosedCallbacks |-> beforeClosedCallbacks,
      modalStates |-> modalStates, closedPromises |-> closedPromises,
      doubleResolve |-> doubleResolve,
      issued |-> issued, refs |-> refs, closeAlls |-> Waiting(closeAlls),
      timers |-> timers, env |-> env,
      probeId |-> "all", probe |-> <<>>, dispatched |-> <<>>,
      returned |-> <<>>, thrown |-> "none"]

\* the operation threw: the statements after the throw do not run
Threw(s) == s.thrown # "none"

\* ---------------------------------------------------------------- store
InternalModalConfig(dc, km) == [disableClose |-> dc, keepMounted |-> km]

\* data = { ...config.data, [MODAL_CONFIG_KEY]: modalConfig }
ModalData(user, cfg) == [user |-> user, config |-> cfg]

NoData == ModalData("none", InternalModalConfig(FALSE, FALSE))

\* absent store entry (state[modalId] === undefined)
NoEntry == [present |-> FALSE, data |-> NoData, isOpen |-> FALSE,
            delayOpen |-> FALSE, keepMounted |-> FALSE]

initialState == [id \in Ids |-> NoEntry]

\* no registry entry (MODAL_REGISTRY[id] === undefined)
Unregistered == [comp |-> "none", props |-> "none"]

resetUidSeed(s) == [s EXCEPT !.uidSeed = 0]

\* getUid with `uidSeed` in the place of `uidSeed++`
getUid_noIncrement(s) == [s |-> s, id |-> Uid(s.uidSeed)]

\* getUid: the new state and the id returned
getUid(s) == [s |-> [s EXCEPT !.uidSeed = @ + 1], id |-> Uid(s.uidSeed)]

\* the ids n successive getUid() calls return, the first made in state s
RECURSIVE getUids(_, _)
getUids(s, n) ==
  IF n = 0 THEN <<>> ELSE <<getUid(s).id>> \o getUids(getUid(s).s, n - 1)

\* getModalId(modal): the new state and the id returned; a component
\* without a cached id gets one from getUid
getModalId(s, modal) ==
  IF modal \notin Components THEN [s |-> s, id |-> modal]
  ELSE IF s.symModalId[modal] = "none"
  THEN LET uid == getUid(s)
       IN [s |-> [uid.s EXCEPT !.symModalId[modal] = uid.id], id |-> uid.id]
  ELSE [s |-> s, id |-> s.symModalId[modal]]

\* register that replaces the component of an entry as well
register_overwrite(s, id, comp, props) ==
  [s EXCEPT !.MODAL_REGISTRY[id] = [comp |-> comp, props |-> props]]

register(s, id, comp, props) ==
  IF s.MODAL_REGISTRY[id] # Unregistered
  THEN [s EXCEPT !.MODAL_REGISTRY[id].props = props]
  ELSE [s EXCEPT !.MODAL_REGISTRY[id] = [comp |-> comp, props |-> props]]

unregister(s, id) == [s EXCEPT !.MODAL_REGISTRY[id] = Unregistered]

\* action creators
actions_open(modalId, data) ==
  [type |-> "show", modalId |-> modalId, data |-> data, flags |-> <<>>]

actions_close(modalId) ==
  [type |-> "hide", modalId |-> modalId, data |-> NoData, flags |-> <<>>]

actions_remove(modalId) ==
  [type |-> "remove", modalId |-> modalId, data |-> NoData, flags |-> <<>>]

actions_setFlags(modalId, flags) ==
  [type |-> "set-flags", modalId |-> modalId, data |-> NoData, flags |-> flags]

\* { ...existingState, ...flags }
MergeFlags(entry, flags) ==
  [f \in DOMAIN entry |-> IF f \in DOMAIN flags THEN flags[f] ELSE entry[f]]

\* a reducer whose show starts a fresh entry
reducer_showFresh(state, action, mounted) ==
  LET modalId == action.modalId IN
  CASE action.type = "show" ->
         [state EXCEPT ![modalId] =
            [present |-> TRUE,
             data |-> action.data,
             isOpen |-> modalId \in mounted,
             delayOpen |-> modalId \notin mounted,
             keepMounted |-> FALSE]]
    [] action.type = "hide" ->
         IF ~state[modalId].present THEN state
         ELSE [state EXCEPT ![modalId].isOpen = FALSE]
    [] action.type = "remove" ->
         [state EXCEPT ![modalId] = NoEntry]
    [] action.type = "set-flags" ->
         IF ~state[modalId].present THEN state
         ELSE [state EXCEPT ![modalId] = MergeFlags(state[modalId], action.flags)]
    [] OTHER -> state

\* a reducer whose set-flags makes an entry for an id that has none
reducer_flagsCreate(state, action, mounted) ==
  LET modalId == action.modalId IN
  CASE action.type = "show" ->
         [state EXCEPT ![modalId] =
            [present |-> TRUE,
             data |-> action.data,
             isOpen |-> modalId \in mounted,
             delayOpen |-> modalId \notin mounted,
             keepMounted |-> state[modalId].keepMounted]]
    [] action.type = "hide" ->
         IF ~state[modalId].present THEN state
         ELSE [state EXCEPT ![modalId].isOpen = FALSE]
    [] action.type = "remove" ->
         [state EXCEPT ![modalId] = NoEntry]
    [] action.type = "set-flags" ->
         [state EXCEPT ![modalId] =
            MergeFlags([state[modalId] EXCEPT !.present = TRUE], action.flags)]
    [] OTHER -> state

reducer(state, action, mounted) ==
  LET modalId == action.modalId IN
  CASE action.type = "show" ->
         [state EXCEPT ![modalId] =
            [present |-> TRUE,
             data |-> action.data,
             isOpen |-> modalId \in mounted,
             delayOpen |-> modalId \notin mounted,
             keepMounted |-> state[modalId].keepMounted]]
    [] action.type = "hide" ->
         IF ~state[modalId].present THEN state
         ELSE [state EXCEPT ![modalId].isOpen = FALSE]
    [] action.type = "remove" ->
         [state EXCEPT ![modalId] = NoEntry]
    [] action.type = "set-flags" ->
         IF ~state[modalId].present THEN state
         ELSE [state EXCEPT ![modalId] = MergeFlags(state[modalId], action.flags)]
    [] OTHER -> state

\* the reducer returns the state object it was given (return state), not
\* an object it built
reducer_returnsState(state, action) ==
  CASE action.type = "show" -> FALSE
    [] action.type = "hide" -> ~state[action.modalId].present
    [] action.type = "remove" -> FALSE
    [] action.type = "set-flags" -> ~state[action.modalId].present
    [] OTHER -> TRUE

\* a default dispatchFn that ignores the action
dispatch_silent(s, action) ==
  IF s.dispatchFn = "default" THEN s
  ELSE [s EXCEPT !.modals = reducer(s.modals, action, s.ALREADY_MOUNTED),
                 !.dispatched = Append(@, action.type),
                 !.returned = Append(@, reducer_returnsState(s.modals, action))]

\* getDispatch()(action): the default dispatchFn throws, the provider's
\* runs the reducer; the types of the actions an operation dispatches are
\* noted in order
dispatch(s, action) ==
  IF s.dispatchFn = "default" THEN [s EXCEPT !.thrown = NoDispatchError]
  ELSE [s EXCEPT !.modals = reducer(s.modals, action, s.ALREADY_MOUNTED),
                 !.dispatched = Append(@, action.type),
                 !.returned = Append(@, reducer_returnsState(s.modals, action))]

\* ---------------------------------------------------------------- promises
\* a promise object a caller holds
Copy(cell, linked) == [cell |-> cell, linked |-> linked]

\* the field of a watched ModalRef that came from a ledger map
RefField ==
  [modalCallbacks |-> "closed", openedCallbacks |-> "opened",
   beforeClosedCallbacks |-> "before"]

\* apply f to the copies linked to map[modalId]: those of the running
\* operation's probe, of the closeAll calls and of the watched ModalRefs
OnCopies(s, map, modalId, f(_)) ==
  LET s1 == IF s.probeId = modalId /\ s.probe[map].linked
            THEN [s EXCEPT !.probe[map] = f(@)] ELSE s
  IN IF map = "hideModalCallbacks"
     THEN [s1 EXCEPT !.closeAlls =
             [k \in 1..Len(@) |->
                IF @[k].waits[modalId].linked
                THEN [@[k] EXCEPT !.waits[modalId] = f(@)] ELSE @[k]]]
     ELSE [s1 EXCEPT !.refs =
             [r \in 1..Len(@) |->
                IF @[r].modalId = modalId /\ @[r][RefField[map]].linked
                THEN [@[r] EXCEPT ![RefField[map]] = f(@)] ELSE @[r]]]

\* what resolve(v) makes of a promise object: the first value stays
Settle(cell, v) ==
  IF cell.settled THEN [cell EXCEPT !.calls = 2]
  ELSE [settled |-> TRUE, value |-> v, calls |-> 1]

\* map[modalId]?.resolve(v)
Resolve(s, map, modalId, v) ==
  IF s[map][modalId] = Absent THEN s
  ELSE LET settleCopy(c) == Copy(Settle(c.cell, v), c.linked)
           s1 == [s EXCEPT ![map][modalId] = Settle(@, v),
                           !.doubleResolve = @ \/ s[map][modalId].calls >= 1]
           s2 == IF map = "modalCallbacks" /\ s.closedPromises[modalId] # Absent
                 THEN [s1 EXCEPT !.closedPromises[modalId] = Settle(@, v)]
                 ELSE s1
       IN OnCopies(s2, map, modalId, settleCopy)

\* delete map[modalId]
Delete(s, map, modalId) ==
  LET unlink(c) == Copy(c.cell, FALSE)
  IN [OnCopies(s, map, modalId, unlink) EXCEPT ![map][modalId] = Absent]

\* map[modalId] = createDeferredPromise()
createDeferredPromise(s, map, modalId) ==
  [Delete(s, map, modalId) EXCEPT ![map][modalId] = Pending]

IsSettled(cell) == cell.settled

\* what became of a promise: "absent" (no entry), "pending" or its value
Outcome(cell) == cell.value

\* ---------------------------------------------------------------- api.ts
cleanupModal(s, modalId) ==
  LET s1 == Delete(s, "modalCallbacks", modalId)
      s2 == Delete(s1, "hideModalCallbacks", modalId)
      s3 == Delete(s2, "openedCallbacks", modalId)
      s4 == Delete(s3, "beforeClosedCallbacks", modalId)
  IN [s4 EXCEPT !.modalStates[modalId] = "none",
                !.closedPromises[modalId] = Absent]

\* closeModal that stores a fresh close deferred on every call, without the
\* test of api.ts:113
closeModal_freshHide(s, modalId) ==
  LET s1 == [s EXCEPT !.modalStates[modalId] = "closing"]
      s2 == dispatch(s1, actions_close(modalId))
      s3 == IF s2.modalCallbacks[modalId] # Absent
            THEN Delete(Resolve(s2, "modalCallbacks", modalId, "undefined"),
                        "modalCallbacks", modalId)
            ELSE s2
  IN IF Threw(s2) THEN s2
     ELSE createDeferredPromise(s3, "hideModalCallbacks", modalId)

closeModal(s, modalId) ==
  LET s1 == [s EXCEPT !.modalStates[modalId] = "closing"]
      s2 == dispatch(s1, actions_close(modalId))
      s3 == IF s2.modalCallbacks[modalId] # Absent
            THEN Delete(Resolve(s2, "modalCallbacks", modalId, "undefined"),
                        "modalCallbacks", modalId)
            ELSE s2
  IN IF Threw(s2) THEN s2
     ELSE IF s3.hideModalCallbacks[modalId] = Absent
     THEN createDeferredPromise(s3, "hideModalCallbacks", modalId)
     ELSE s3

\* removeModal that purges the ledger before it resolves: the resolves of
\* api.ts:138-141 then find no entry
removeModal_cleanupFirst(s, modalId) ==
  LET s1 == dispatch(s, actions_remove(modalId))
  IN IF Threw(s1) THEN s1 ELSE cleanupModal(s1, modalId)

removeModal(s, modalId) ==
  LET s1 == dispatch(s, actions_remove(modalId))
      s2 == Resolve(s1, "modalCallbacks", modalId, "undefined")
      s3 == Resolve(s2, "hideModalCallbacks", modalId, "undefined")
      s4 == Resolve(s3, "beforeClosedCallbacks", modalId, "undefined")
      s5 == Resolve(s4, "openedCallbacks", modalId, "undefined")
  IN IF Threw(s1) THEN s1 ELSE cleanupModal(s5, modalId)

setFlags(s, modalId, flags) == dispatch(s, actions_setFlags(modalId, flags))

\* config = { data: user, keepMounted, disableClose }
openModal(s, modalId, user, keepMounted, disableClose) ==
  LET data == ModalData(user, InternalModalConfig(disableClose, keepMounted))
      s1 == [s EXCEPT !.modalStates[modalId] = "open",
                      !.timers[modalId] = [i \in DOMAIN @ |-> "earlier"]]
      s2 == dispatch(s1, actions_open(modalId, data))
      s3 == IF keepMounted
            THEN dispatch(s2, actions_setFlags(modalId, [keepMounted |-> TRUE]))
            ELSE s2
      s4 == createDeferredPromise(s3, "modalCallbacks", modalId)
      s5 == [s4 EXCEPT !.closedPromises[modalId] = s4.modalCallbacks[modalId]]
      s6 == createDeferredPromise(s5, "openedCallbacks", modalId)
  IN IF Threw(s2) THEN s2
     ELSE createDeferredPromise(s6, "beforeClosedCallbacks", modalId)

\* openModal(modal, config) for a string or a component, without
\* config.modalId: the id of the modal and the auto-registration of a
\* component, then the rest of openModal
openModal_modal(s, modal, user, keepMounted, disableClose) ==
  LET got == getModalId(s, modal)
      s1 == IF modal \in Components /\ got.s.MODAL_REGISTRY[got.id] = Unregistered
            THEN register(got.s, got.id, modal, "undefined")
            ELSE got.s
  IN openModal(s1, got.id, user, keepMounted, disableClose)

\* modalRef.close without the delete of api.ts:286: the main deferred stays
\* in the ledger for the closeModal that follows
modalRef_close_keepsMain(s, modalId, result) ==
  IF s.modalStates[modalId] = "closed" THEN s
  ELSE LET s1 == [s EXCEPT !.modalStates[modalId] = "closing"]
           s2 == Delete(Resolve(s1, "beforeClosedCallbacks", modalId, result),
                        "beforeClosedCallbacks", modalId)
           s3 == Resolve(s2, "modalCallbacks", modalId, result)
       IN closeModal(s3, modalId)

\* modalRef.close(result)
modalRef_close(s, modalId, result) ==
  IF s.modalStates[modalId] = "closed" THEN s
  ELSE LET s1 == [s EXCEPT !.modalStates[modalId] = "closing"]
           s2 == Delete(Resolve(s1, "beforeClosedCallbacks", modalId, result),
                        "beforeClosedCallbacks", modalId)
           s3 == Delete(Resolve(s2, "modalCallbacks", modalId, result),
                        "modalCallbacks", modalId)
       IN closeModal(s3, modalId)

\* the disableClose setter of the ModalRef ref, that is s.refs[r]: data and
\* disableClose are the variables of the closure of the openModal call
modalRef_setDisableClose(s, r, value) ==
  LET ref == s.refs[r]
      s1 == [s EXCEPT !.refs[r].disableClose = value]
      updatedData == [ref.data EXCEPT !.config.disableClose = value]
  IN dispatch(s1, actions_setFlags(ref.modalId, [data |-> updatedData]))

\* modalRef.updateData(newData) of the ModalRef s.refs[r]: Object.assign on
\* the data of the closure, then a show action with it
modalRef_updateData(s, r, user) ==
  LET ref == s.refs[r]
      data == [ref.data EXCEPT !.user = user]
      s1 == [s EXCEPT !.refs[r].data = data]
  IN dispatch(s1, actions_open(ref.modalId, data))

\* modalRef.afterOpened(): the promise object and whether the ledger holds it
modalRef_afterOpened(s, modalId) ==
  IF s.openedCallbacks[modalId] # Absent
  THEN Copy(s.openedCallbacks[modalId], TRUE)
  ELSE Copy(Fulfilled("undefined"), FALSE)

\* modalRef.afterClosed()
modalRef_afterClosed(s, modalId) ==
  IF s.closedPromises[modalId] # Absent
  THEN Copy(s.closedPromises[modalId], s.modalCallbacks[modalId] # Absent)
  ELSE Copy(Fulfilled("undefined"), FALSE)

\* modalRef.beforeClosed()
modalRef_beforeClosed(s, modalId) ==
  IF s.beforeClosedCallbacks[modalId] # Absent
  THEN Copy(s.beforeClosedCallbacks[modalId], TRUE)
  ELSE Copy(Fulfilled("undefined"), FALSE)

\* modalRef.getState()
modalRef_getState(s, modalId) ==
  IF s.modalStates[modalId] # "none" THEN s.modalStates[modalId] ELSE "closed"

\* markClosed, up to its setTimeout.  The timers are not kept: markClosed is
\* the only writer of "closed" and schedules a timer with every write, so
\* while the state is "closed" the timer of the last write is pending, and
\* a timer that fires in another state changes nothing.
markClosed(s, modalId) ==
  [s EXCEPT !.modalStates[modalId] = "closed",
            !.timers[modalId] = IF s.env.timers THEN Append(@, "own") ELSE @]

\* a timer callback that does not look at the state
purgeTimer_unguarded(s, modalId) ==
  [s EXCEPT !.modalStates[modalId] = "none",
            !.closedPromises[modalId] = Absent]

\* the callback markClosed hands to setTimeout
purgeTimer(s, modalId) ==
  IF s.modalStates[modalId] = "closed"
  THEN [s EXCEPT !.modalStates[modalId] = "none",
                 !.closedPromises[modalId] = Absent]
  ELSE s

getOpenModals(s) ==
  {id \in Ids : s.modalStates[id] = "open" \/ s.modalStates[id] = "closing"}

hasOpenModals(s) == getOpenModals(s) # {}

\* one iteration of the loop of closeAllModals
closeAllStep(s, modalId) ==
  LET s1 == [s EXCEPT !.modalStates[modalId] = "closing"]
      s2 == Delete(Resolve(s1, "beforeClosedCallbacks", modalId, "undefined"),
                   "beforeClosedCallbacks", modalId)
      s3 == Delete(Resolve(s2, "modalCallbacks", modalId, "undefined"),
                   "modalCallbacks", modalId)
  IN closeModal(s3, modalId)

RECURSIVE closeAllLoop(_, _)
closeAllLoop(s, ids) ==
  IF ids = {} \/ Threw(s) THEN s
  ELSE LET id == CHOOSE x \in ids : TRUE
       IN closeAllLoop(closeAllStep(s, id), ids \ {id})

\* the promises closeAllModals passes to Promise.all: for every id of
\* openModals the promise closeModal returned
closePromises(s, openModals) ==
  [id \in Ids |-> IF id \in openModals
                  THEN Copy(s.hideModalCallbacks[id], TRUE)
                  ELSE Copy(Absent, FALSE)]

\* closeAllModals, up to its await
closeAllModals(s) == closeAllLoop(s, getOpenModals(s))

\* a closeAll() call that waits in its await: the ids it closed, the
\* promises it awaits and the ids whose close sequence has not completed
closeAllCall(s) ==
  [ids |-> getOpenModals(s),
   waits |-> closePromises(closeAllModals(s), getOpenModals(s)),
   remaining |-> getOpenModals(s), done |-> FALSE]

\* Promise.race in the place of Promise.all
closeAllReady_race(call) == \E id \in call.ids : IsSettled(call.waits[id].cell)

\* await Promise.all(closePromises) can continue
closeAllReady(call) == \A id \in call.ids : IsSettled(call.waits[id].cell)

notifyOpened(s, modalId) ==
  Delete(Resolve(s, "openedCallbacks", modalId, "undefined"),
         "openedCallbacks", modalId)

\* ---------------------------------------------------------------- hooks.ts
openCallback(s, modalId, user) == openModal(s, modalId, user, FALSE, FALSE)

closeCallback(s, modalId, result) ==
  LET s1 == Delete(Resolve(s, "modalCallbacks", modalId, result),
                   "modalCallbacks", modalId)
  IN closeModal(s1, modalId)

dismissCallback(s, modalId) ==
  LET s1 == Delete(Resolve(s, "modalCallbacks", modalId, "undefined"),
                   "modalCallbacks", modalId)
  IN closeModal(s1, modalId)

removeCallback(s, modalId) == removeModal(s, modalId)

\* the field of the data record that stands for the reserved key
\* "__modalConfig"
MODAL_CONFIG_KEY == "config"

\* useModalData() inside a modal whose render saw the entry modalInfo:
\* const { [MODAL_CONFIG_KEY]: _, ...userData } = data
useModalData(modalInfo) ==
  IF ~modalInfo.present THEN <<>>
  ELSE [key \in DOMAIN modalInfo.data \ {MODAL_CONFIG_KEY} |-> modalInfo.data[key]]

\* the data field of the handler useModal() returns: modalInfo?.data
useModal_data(modalInfo) ==
  IF ~modalInfo.present THEN <<>> ELSE modalInfo.data

\* the props the createModal wrapper hands to the modal component:
\* { ...componentProps, ...data, ref }, without the ref
mergedProps(componentProps, modalInfo) ==
  useModal_data(modalInfo) @@ componentProps

\* the branch onAnimationEnd takes: current?.isOpen
AnimationBranch(s, modalId) ==
  IF s.modalInfoRef[modalId].present /\ s.modalInfoRef[modalId].isOpen
  THEN "opened" ELSE "closed"

onAnimationEnd(s, modalId) ==
  LET current == s.modalInfoRef[modalId] IN
  IF AnimationBranch(s, modalId) = "opened"
  THEN notifyOpened(s, modalId)
  ELSE LET s1 == markClosed(s, modalId)
           s2 == Delete(Resolve(s1, "hideModalCallbacks", modalId, "undefined"),
                        "hideModalCallbacks", modalId)
       IN IF ~(current.present /\ current.keepMounted)
          THEN removeModal(s2, modalId)
          ELSE s2

\* the state fields of the handler useModal() returns in a render that saw
\* the entry modalInfo
useModal(modalId, modalInfo) ==
  [modalId |-> modalId,
   isOpen |-> modalInfo.present /\ modalInfo.isOpen,
   keepMounted |-> modalInfo.present /\ modalInfo.keepMounted]

\* ---------------------------------------------------------------- adapters
\* root adapters whose onOpenChange also calls modal.onAnimationEnd()
PopoverAdapters == {"shadcnUiPopover", "radixUiPopover"}

\* adapters of a root component: { open, onOpenChange }
RootAdapters ==
  {"radixUiDialog", "radixUiAlertDialog", "shadcnUiDialog",
   "shadcnUiAlertDialog", "shadcnUiSheet", "shadcnUiDrawer", "radixUiSheet",
   "baseUiDialog", "baseUiAlertDialog", "baseUiPopover", "baseUiSheet"}
  \cup PopoverAdapters

\* root adapters that also have onClose
CloseAdapters == {"shadcnUiDialog", "shadcnUiAlertDialog", "shadcnUiSheet"}

\* adapters of a content component: onEscapeKeyDown, onPointerDownOutside
ContentAdapters ==
  {"radixUiDialogContent", "radixUiAlertDialogContent",
   "shadcnUiDialogContent", "shadcnUiAlertDialogContent",
   "shadcnUiSheetContent", "radixUiSheetContent"}

\* the handlers of the adapter
AdapterEvents(adapter) ==
  (IF adapter \in RootAdapters THEN {"onOpenChange"} ELSE {})
  \cup (IF adapter \in CloseAdapters THEN {"onClose"} ELSE {})
  \cup (IF adapter \in ContentAdapters
        THEN {"onEscapeKeyDown", "onPointerDownOutside"} ELSE {})

\* the open prop of a root adapter
adapter_open(adapter, modal) == modal.isOpen

\* handlers that call dismiss whatever options.disableClose is
adapter_handler_alwaysDismiss(adapter, event, open, disableClose) ==
  CASE event = "onOpenChange" ->
         IF ~open
         THEN IF adapter \in PopoverAdapters
              THEN <<"dismiss", "onAnimationEnd">> ELSE <<"dismiss">>
         ELSE <<>>
    [] event = "onClose" -> <<"dismiss">>
    [] OTHER -> <<"dismiss">>

\* the calls the handler of an adapter makes, in order: on the ModalHandler
\* (dismiss, onAnimationEnd) and on the event it was given (preventDefault)
adapter_handler(adapter, event, open, disableClose) ==
  CASE event = "onOpenChange" ->
         IF ~(open \/ disableClose)
         THEN IF adapter \in PopoverAdapters
              THEN <<"dismiss", "onAnimationEnd">> ELSE <<"dismiss">>
         ELSE <<>>
    [] event = "onClose" ->
         IF ~disableClose THEN <<"dismiss">> ELSE <<>>
    [] OTHER ->
         IF disableClose THEN <<"preventDefault">> ELSE <<"dismiss">>

\* ---------------------------------------------------------------- view
\* One component of the tree in a React commit.  snap is the store the
\* render saw.  A wrapper is rendered when it is declared in the tree or
\* when ModalPlaceholder finds a store entry with a registered component.
\* Its effects run in hook order: modalInfoRef.current = modalInfo,
\* ALREADY_MOUNTED[modalId] = true, on mount the keepMounted effect, then
\* the delayed-open effect.  A wrapper
\* that is no longer rendered runs the cleanup of the mount effect.
\* a wrapper without the delayed-open effect
commitComponent_noReplay(s, snap, modalId) ==
  IF modalId \in s.declared
     \/ (snap[modalId].present /\ s.MODAL_REGISTRY[modalId] # Unregistered)
  THEN LET s1 == [s EXCEPT !.modalInfoRef[modalId] = snap[modalId],
                           !.ALREADY_MOUNTED = @ \cup {modalId}]
       IN IF modalId \notin s.ALREADY_MOUNTED /\ modalId \in s.keepMountedProp
          THEN setFlags(s1, modalId, [keepMounted |-> TRUE])
          ELSE s1
  ELSE [s EXCEPT !.modalInfoRef[modalId] = NoEntry,
                 !.ALREADY_MOUNTED = @ \ {modalId}]

commitComponent(s, snap, modalId) ==
  IF modalId \in s.declared
     \/ (snap[modalId].present /\ s.MODAL_REGISTRY[modalId] # Unregistered)
  THEN LET s1 == [s EXCEPT !.modalInfoRef[modalId] = snap[modalId],
                           !.ALREADY_MOUNTED = @ \cup {modalId}]
           s2 == IF modalId \notin s.ALREADY_MOUNTED /\ modalId \in s.keepMountedProp
                 THEN setFlags(s1, modalId, [keepMounted |-> TRUE])
                 ELSE s1
       IN IF snap[modalId].present /\ snap[modalId].delayOpen
          THEN openCallback(s2, modalId, snap[modalId].data.user)
          ELSE s2
  ELSE [s EXCEPT !.modalInfoRef[modalId] = NoEntry,
                 !.ALREADY_MOUNTED = @ \ {modalId}]

RECURSIVE commitLoop(_, _, _)
commitLoop(s, snap, ids) ==
  IF ids = {} THEN s
  ELSE LET id == CHOOSE x \in ids : TRUE
       IN commitLoop(commitComponent(s, snap, id), snap, ids \ {id})

\* render with the current store, then flush the effects
commit(s) == commitLoop(s, s.modals, Ids)

\* ---------------------------------------------------------------- ghosts
LedgerMaps == {"modalCallbacks", "hideModalCallbacks", "openedCallbacks",
               "beforeClosedCallbacks"}

\* the state at the start of an operation on modalId, with a probe on the
\* promise objects the ledger holds for modalId
Probe(s, modalId) ==
  [s EXCEPT !.probeId = modalId,
            !.probe = [map \in LedgerMaps |->
                         Copy(s[map][modalId], s[map][modalId] # Absent)]]

\* the operation op ran for id and led from s to s2: pre is the lifecycle
\* state before it, was / now tell what the promise objects the ledger held
\* for id before it were then and are now, kept whether the ledger still
\* holds them, dispatched the types of the actions it dispatched, returned
\* whether the reducer returned the state it was given for each of them
Op(op, id, arg, s, s2) ==
  [op |-> op, id |-> id, arg |-> arg, pre |-> s.modalStates[id],
   was |-> [map \in LedgerMaps |-> Outcome(s[map][id])],
   now |-> [map \in LedgerMaps |-> Outcome(s2.probe[map].cell)],
   kept |-> [map \in LedgerMaps |-> s2.probe[map].linked],
   dispatched |-> s2.dispatched, returned |-> s2.returned,
   thrown |-> s2.thrown]

OpAll(op) ==
  [op |-> op, id |-> "all", arg |-> "undefined", pre |-> "none",
   was |-> [map \in LedgerMaps |-> "absent"],
   now |-> [map \in LedgerMaps |-> "absent"],
   kept |-> [map \in LedgerMaps |-> FALSE],
   dispatched |-> <<>>, returned |-> <<>>, thrown |-> "none"]

\* A watched ModalRef is in phase "open" from the open() that returned it
\* until a close of its modal is requested ("closing"); the animation-end
\* 'closed' branch or a remove ends it ("done"); an open() of the
\* application on the same id before that supersedes it ("superseded").
RefsPhase(s, ids, from, to) ==
  [s EXCEPT !.refs = [r \in 1..Len(@) |->
     IF @[r].modalId \in ids /\ @[r].phase \in from
     THEN [@[r] EXCEPT !.phase = to] ELSE @[r]]]

RefsCloseRequested(s, ids) == RefsPhase(s, ids, {"open"}, "closing")

RefsCompleted(s, id) == RefsPhase(s, {id}, {"open", "closing"}, "done")

RefsSuperseded(s, id) == RefsPhase(s, {id}, {"open", "closing"}, "superseded")

\* the 'opened' notification of id ran while the refs were in phase "open"
RefsNotified(s, id) ==
  [s EXCEPT !.refs = [r \in 1..Len(@) |->
     IF @[r].modalId = id /\ @[r].phase = "open"
     THEN [@[r] EXCEPT !.notified = TRUE] ELSE @[r]]]

\* ref.close(result) ran on the watched refs of id: a call on a ref in phase
\* "open" whose modal has not been notified 'opened' is remembered with its
\* argument
RefsClosed(s, id, result) ==
  [s EXCEPT !.refs = [r \in 1..Len(@) |->
     IF /\ @[r].modalId = id
        /\ @[r].phase = "open"
        /\ ~@[r].notified
     THEN [@[r] EXCEPT !.closeArg = result] ELSE @[r]]]

\* the close sequence of id completed (animation-end 'closed' branch or
\* remove): the closeAll() calls still waiting take note
CloseAllsCompleted(s, id) ==
  [s EXCEPT !.closeAlls = [k \in 1..Len(@) |-> [@[k] EXCEPT !.remaining = @ \ {id}]]]

Finish(s2, l) ==
  /\ modals' = s2.modals
  /\ ALREADY_MOUNTED' = s2.ALREADY_MOUNTED
  /\ MODAL_REGISTRY' = s2.MODAL_REGISTRY
  /\ uidSeed' = s2.uidSeed
  /\ symModalId' = s2.symModalId
  /\ dispatchFn' = s2.dispatchFn
  /\ declared' = s2.declared
  /\ keepMountedProp' = s2.keepMountedProp
  /\ modalInfoRef' = s2.modalInfoRef
  /\ modalCallbacks' = s2.modalCallbacks
  /\ hideModalCallbacks' = s2.hideModalCallbacks
  /\ openedCallbacks' = s2.openedCallbacks
  /\ beforeClosedCallbacks' = s2.beforeClosedCallbacks
  /\ modalStates' = s2.modalStates
  /\ closedPromises' = s2.closedPromises
  /\ doubleResolve' = s2.doubleResolve
  /\ issued' = s2.issued
  /\ refs' = s2.refs
  /\ closeAlls' = s2.closeAlls
  /\ timers' = s2.timers
  /\ last' = IF env.trace THEN l ELSE last
  /\ env' = env

\* ---------------------------------------------------------------- actions
\* A scenario: the ids the application uses, the keepMounted options it
\* passes for each id, the disableClose options and the close results it
\* passes, how many ModalRefs and closeAll() promises it watches, whether
\* it assigns disableClose of the ModalRefs it keeps, and whether the last
\* operation is traced.
Scenario(scope, kms, dcs, results, watch, setters, awaits, trace, track) ==
  [scope |-> scope, kms |-> kms, dcs |-> dcs, results |-> results,
   watch |-> watch, setters |-> setters, awaits |-> awaits, trace |-> trace,
   timers |-> track]

\* the modules are loaded: the wrappers declared in the tree are mounted
\* (the keepMounted effect of such a wrapper found no store entry), the
\* other ids have a registered component
Loaded(scenario, decls, props) ==
  /\ env = scenario
  /\ modals = initialState
  /\ declared \in decls
  /\ keepMountedProp \in props
  /\ ALREADY_MOUNTED = declared
  /\ MODAL_REGISTRY = [id \in Ids |-> IF id \in StringIds \ declared
                                     THEN [comp |-> "Modal", props |-> "undefined"]
                                     ELSE Unregistered]
  /\ uidSeed = 0
  /\ symModalId = [comp \in Components |-> "none"]
  /\ modalInfoRef = [id \in Ids |-> NoEntry]
  /\ modalCallbacks = [id \in Ids |-> Absent]
  /\ hideModalCallbacks = [id \in Ids |-> Absent]
  /\ openedCallbacks = [id \in Ids |-> Absent]
  /\ beforeClosedCallbacks = [id \in Ids |-> Absent]
  /\ modalStates = [id \in Ids |-> "none"]
  /\ closedPromises = [id \in Ids |-> Absent]
  /\ doubleResolve = FALSE
  /\ issued = {}
  /\ refs = <<>>
  /\ closeAlls = <<>>
  /\ timers = [id \in Ids |-> <<>>]
  /\ last = OpAll("init")

\* the state after the provider rendered
InitWith(scenario, decls, props) ==
  /\ dispatchFn = "provider"
  /\ Loaded(scenario, decls, props)

\* the provider renders: setDispatch(dispatch)
ProviderRender ==
  /\ dispatchFn = "default"
  /\ Finish([S EXCEPT !.dispatchFn = "provider"], OpAll("providerRender"))

\* ModalManager.open(id, {data, keepMounted, disableClose}).  With watch the
\* caller keeps the ModalRef and takes its three promises at once.
Open(id, user, keepMounted, disableClose, watch) ==
  /\ watch => Len(refs) < env.watch
  /\ LET s1 == openModal(RefsSuperseded(Probe(S, id), id), id, user,
                         keepMounted, disableClose)
         closure == [disableClose |-> disableClose,
                     data |-> ModalData(user, InternalModalConfig(disableClose,
                                                                  keepMounted))]
         ref == [modalId |-> id,
                 closed |-> modalRef_afterClosed(s1, id),
                 opened |-> modalRef_afterOpened(s1, id),
                 before |-> modalRef_beforeClosed(s1, id),
                 phase |-> "open", notified |-> FALSE, closeArg |-> "none"]
         s2 == IF Threw(s1) THEN s1
               ELSE [s1 EXCEPT !.issued = @ \cup {id},
                               !.refs = IF ~watch THEN @
                                        ELSE IF env.setters
                                        THEN Append(@, ref @@ closure)
                                        ELSE Append(@, ref)]
     IN Finish(s2, Op("open", id, "undefined", S, s2))

\* ref.close(result) on a ModalRef of id
RefClose(id, result) ==
  /\ id \in issued
  /\ LET s1 == IF modalStates[id] # "closed"
               THEN RefsCloseRequested(RefsClosed(Probe(S, id), id, result), {id})
               ELSE Probe(S, id)
         s2 == modalRef_close(s1, id, result)
     IN Finish(s2, Op("refClose", id, result, S, s2))

\* ref.disableClose = value on a watched ModalRef
RefSetDisableClose(r, value) ==
  /\ env.setters
  /\ r \in 1..Len(refs)
  /\ LET id == refs[r].modalId
         s2 == modalRef_setDisableClose(Probe(S, id), r, value)
     IN Finish(s2, Op("setDisableClose", id, "undefined", S, s2))

\* ref.updateData({user}) on a watched ModalRef
RefUpdateData(r, user) ==
  /\ env.setters
  /\ r \in 1..Len(refs)
  /\ LET id == refs[r].modalId
         s2 == modalRef_updateData(Probe(S, id), r, user)
     IN Finish(s2, Op("updateData", id, user, S, s2))

\* ModalManager.close(id)
Close(id) ==
  LET s2 == closeModal(RefsCloseRequested(Probe(S, id), {id}), id)
  IN Finish(s2, Op("close", id, "undefined", S, s2))

\* handler.close(result) of useModal
HandlerClose(id, result) ==
  LET s2 == closeCallback(RefsCloseRequested(Probe(S, id), {id}), id, result)
  IN Finish(s2, Op("handlerClose", id, result, S, s2))

\* handler.dismiss() of useModal
Dismiss(id) ==
  LET s2 == dismissCallback(RefsCloseRequested(Probe(S, id), {id}), id)
  IN Finish(s2, Op("dismiss", id, "undefined", S, s2))

\* ModalManager.closeAll(), up to its await; with watch the caller keeps
\* the promise it returned
CloseAll(watch) ==
  /\ watch => Len(S.closeAlls) < env.awaits
  /\ LET s1 == RefsCloseRequested(S, getOpenModals(S))
         s2 == closeAllModals(s1)
     IN Finish([s2 EXCEPT !.closeAlls = IF watch THEN Append(@, closeAllCall(s1)) ELSE @],
               OpAll("closeAll"))

\* the continuation of closeAll after `await Promise.all(closePromises)`
CloseAllResolve(k) ==
  /\ k \in 1..Len(S.closeAlls)
  /\ closeAllReady(S.closeAlls[k])
  /\ Finish([S EXCEPT !.closeAlls[k].done = TRUE], OpAll("closeAllResolve"))

\* ModalManager.remove(id) and handler.remove()
Remove(id) ==
  LET s2 == removeCallback(CloseAllsCompleted(RefsCompleted(Probe(S, id), id), id), id)
  IN Finish(s2, Op("remove", id, "undefined", S, s2))

\* ModalManager.open(component, {data})
OpenComponent(comp, user) ==
  /\ symModalId[comp] # "none" \/ uidSeed < MaxUid
  /\ LET id == getModalId(S, comp).id
         s1 == openModal_modal(RefsSuperseded(Probe(S, id), id), comp, user,
                               FALSE, FALSE)
         s2 == IF Threw(s1) THEN s1 ELSE [s1 EXCEPT !.issued = @ \cup {id}]
     IN Finish(s2, Op("open", id, comp, S, s2))

\* getModalId(modal) called by the application
GetModalId(modal) ==
  /\ modal \in Components => (symModalId[modal] # "none" \/ uidSeed < MaxUid)
  /\ LET got == getModalId(S, modal)
     IN Finish(got.s, Op("getModalId", got.id, modal, S, Probe(got.s, got.id)))

\* ModalManager.register(id, comp, props)
Register(id, comp, props) ==
  LET s2 == register(Probe(S, id), id, comp, props)
  IN Finish(s2, Op("register", id, comp, S, s2))

\* ModalManager.unregister(id)
Unregister(id) ==
  LET s2 == unregister(Probe(S, id), id)
  IN Finish(s2, Op("unregister", id, "undefined", S, s2))

\* ModalManager.cleanup(id)
Cleanup(id) ==
  LET s2 == cleanupModal(Probe(S, id), id)
  IN Finish(s2, Op("cleanup", id, "undefined", S, s2))

\* resetUidSeed()
ResetUidSeed ==
  /\ uidSeed # 0
  /\ Finish(resetUidSeed(S), OpAll("resetUidSeed"))

\* setFlags(id, flags)
SetFlags(id, flags) ==
  LET s2 == setFlags(Probe(S, id), id, flags)
  IN Finish(s2, Op("setFlags", id, "undefined", S, s2))

\* the provider's dispatch runs the reducer on an action
Reduce(action) ==
  LET s2 == dispatch(Probe(S, action.modalId), action)
  IN Finish(s2, Op("dispatch", action.modalId, action, S, s2))

\* the calls of an adapter's handler, made in order on the ModalHandler
RECURSIVE handlerCalls(_, _, _)
handlerCalls(s, id, calls) ==
  IF calls = <<>> THEN s
  ELSE LET s1 ==
             CASE calls[1] = "dismiss" ->
                    dismissCallback(RefsCloseRequested(s, {id}), id)
               [] calls[1] = "onAnimationEnd" ->
                    IF AnimationBranch(s, id) = "opened"
                    THEN onAnimationEnd(RefsNotified(s, id), id)
                    ELSE onAnimationEnd(
                           CloseAllsCompleted(RefsCompleted(s, id), id), id)
               [] OTHER -> s
       IN handlerCalls(s1, id, Tail(calls))

\* the UI component calls a handler of the props the adapter made for the
\* rendered modal: onOpenChange(open), onClose(), onEscapeKeyDown(e),
\* onPointerDownOutside(e); disableClose is the adapter's option
AdapterEvent(id, adapter, event, open, disableClose) ==
  /\ modalInfoRef[id].present
  /\ id \in ALREADY_MOUNTED
  /\ event \in AdapterEvents(adapter)
  /\ LET calls == adapter_handler(adapter, event, open, disableClose)
         s2 == handlerCalls(Probe(S, id), id, calls)
     IN Finish(s2, Op(event, id,
                      [adapter |-> adapter, open |-> open,
                       disableClose |-> disableClose, calls |-> calls],
                      S, s2))

\* the animation-end event of a rendered modal
AnimationEnd(id) ==
  /\ modalInfoRef[id].present
  /\ id \in ALREADY_MOUNTED
  /\ IF AnimationBranch(S, id) = "opened"
     THEN LET s2 == onAnimationEnd(RefsNotified(Probe(S, id), id), id)
          IN Finish(s2, Op("animationOpened", id, "undefined", S, s2))
     ELSE LET s2 == onAnimationEnd(
                      CloseAllsCompleted(RefsCompleted(Probe(S, id), id), id), id)
          IN Finish(s2, Op("animationClosed", id, "undefined", S, s2))

\* React renders the tree with the current store and runs the effects
Commit ==
  /\ commit(S) # S
  /\ Finish(commit(S), OpAll("commit"))

\* the application renders the wrapper <Modal modalId={id} /> in its tree:
\* the commit that mounts it runs its effects
Mount(id) ==
  /\ id \notin declared
  /\ Finish(commit([S EXCEPT !.declared = @ \cup {id}]), OpAll("mount"))

\* the application stops rendering the wrapper of id: the commit runs the
\* cleanup of its mount effect
Unmount(id) ==
  /\ id \in declared
  /\ Finish(commit([S EXCEPT !.declared = @ \ {id}]), OpAll("unmount"))

\* a timer of markClosed fires CLEANUP_DELAY_MS after it was set.  Where
\* the timers are kept (env.timers) the oldest pending timer of id fires,
\* in whatever state id is; elsewhere a timer fires while id is closed.
PurgeTimer(id) ==
  /\ IF env.timers THEN timers[id] # <<>> ELSE modalStates[id] = "closed"
  /\ LET s1 == purgeTimer(Probe(S, id), id)
         s2 == IF env.timers THEN [s1 EXCEPT !.timers[id] = Tail(@)] ELSE s1
     IN Finish(s2, Op("purge", id, "undefined", S, s2))

\* the calls of the application and the events of the view
Step(watch) ==
  \/ \E id \in env.scope, user \in UserData :
        \E km \in env.kms[id], dc \in env.dcs : Open(id, user, km, dc, watch)
  \/ \E id \in env.scope, result \in env.results : RefClose(id, result)
  \/ \E id \in env.scope : Close(id)
  \/ \E id \in env.scope, result \in env.results : HandlerClose(id, result)
  \/ \E id \in env.scope : Dismiss(id)
  \/ CloseAll(watch)
  \/ \E id \in env.scope : Remove(id)
  \/ \E id \in env.scope : AnimationEnd(id)
  \/ Commit

\* the timers of markClosed
Timers == \E id \in env.scope : PurgeTimer(id)

\* setFlags called from outside the library, with the flags its callers pass
Flags == \E id \in env.scope : SetFlags(id, [keepMounted |-> TRUE])

\* one modal, with or without the keepMounted prop; every operation is
\* traced in `last`
Init ==
  InitWith(Scenario({"m1"}, [id \in Ids |-> BOOLEAN], {FALSE}, Results, 0, FALSE, 0, TRUE, FALSE),
           SUBSET {"m1"}, SUBSET {"m1"})

Next == Step(FALSE) \/ Timers \/ Flags

Spec == Init /\ [][Next]_vars

\* one modal, used before and after the provider rendered
InitBare ==
  /\ dispatchFn = "default"
  /\ Loaded(Scenario({"m1"}, [id \in Ids |-> {FALSE}], {FALSE}, Results, 0, FALSE, 0, TRUE, FALSE),
            {{}}, {{}})

NextBare == ProviderRender \/ Step(FALSE)

SpecBare == InitBare /\ [][NextBare]_vars

\* one modal opened with and without disableClose; the caller keeps a
\* ModalRef and assigns its disableClose
InitConfig ==
  InitWith(Scenario({"m1"}, [id \in Ids |-> {FALSE}], BOOLEAN, {"undefined"},
                    MaxRefs, TRUE, 0, FALSE, FALSE),
           SUBSET {"m1"}, {{}})

NextConfig ==
  \/ \E watch \in BOOLEAN : Step(watch)
  \/ \E r \in 1..MaxRefs, value \in BOOLEAN : RefSetDisableClose(r, value)

SpecConfig == InitConfig /\ [][NextConfig]_vars

\* modals opened by component reference, and the registry; the application
\* registers components under its own string ids
InitRegistry ==
  InitWith(Scenario({}, [id \in Ids |-> {FALSE}], {FALSE}, {"undefined"},
                    0, FALSE, 0, TRUE, FALSE),
           {{}}, {{}})

NextRegistry ==
  \/ \E comp \in Components, user \in UserData : OpenComponent(comp, user)
  \/ \E modal \in Components \cup StringIds : GetModalId(modal)
  \/ \E id \in StringIds, comp \in Components, props \in Props :
        Register(id, comp, props)
  \/ \E id \in Ids : Unregister(id)
  \/ ResetUidSeed

SpecRegistry == InitRegistry /\ [][NextRegistry]_vars

\* one modal; the caller watches the promises of ModalRefs
InitRef ==
  InitWith(Scenario({"m1"}, [id \in Ids |-> BOOLEAN], {FALSE}, Results, MaxRefs, FALSE, 0, FALSE, FALSE),
           SUBSET {"m1"}, {{}})

NextRef == (\E watch \in BOOLEAN : Step(watch)) \/ Timers

SpecRef == InitRef /\ [][NextRef]_vars

\* all modals, m1 rendered by ModalPlaceholder and m2 declared in the
\* tree; the caller watches the promises of closeAll().  keepMounted is not
\* passed, so no modal stays in state "closed" and the timers of markClosed
\* find nothing to purge.
InitAll ==
  InitWith(Scenario(StringIds, [id \in Ids |-> {FALSE}], {FALSE}, {"undefined"}, 0, FALSE, MaxCloseAll, FALSE, FALSE),
           {{"m2"}}, {{}})

NextAll ==
  \/ \E watch \in BOOLEAN : Step(watch)
  \/ \E k \in 1..MaxCloseAll : CloseAllResolve(k)

SpecAll == InitAll /\ [][NextAll]_vars

\* one modal whose wrapper the application mounts and unmounts and whose
\* component it unregisters; the caller keeps a ModalRef and updates its data
InitMount ==
  InitWith(Scenario({"m1"}, [id \in Ids |-> {FALSE}], {FALSE}, {"undefined"},
                    MaxRefs, TRUE, 0, FALSE, FALSE),
           SUBSET {"m1"}, {{}})

NextMount ==
  \/ \E watch \in BOOLEAN : Step(watch)
  \/ \E r \in 1..MaxRefs : RefUpdateData(r, "d2")
  \/ \E id \in env.scope : Mount(id)
  \/ \E id \in env.scope : Unmount(id)
  \/ \E id \in env.scope : Unregister(id)

SpecMount == InitMount /\ [][NextMount]_vars

\* one modal declared in the tree that the application opens, closes while
\* it is open, and opens again, each call made when React has rendered the
\* store (commit(S) = S); the animation-end events come at any time
InitReopen ==
  InitWith(Scenario({"m1"}, [id \in Ids |-> BOOLEAN], {FALSE}, Results,
                    0, FALSE, 0, TRUE, FALSE),
           {{"m1"}}, {{}})

NextReopen ==
  \/ \E id \in env.scope, user \in UserData, km \in BOOLEAN :
        commit(S) = S /\ Open(id, user, km, FALSE, FALSE)
  \/ \E id \in env.scope, result \in env.results :
        commit(S) = S /\ modalStates[id] = "open" /\ RefClose(id, result)
  \/ \E id \in env.scope :
        commit(S) = S /\ modalStates[id] = "open" /\ Close(id)
  \/ \E id \in env.scope : AnimationEnd(id)
  \/ Commit

SpecReopen == InitReopen /\ [][NextReopen]_vars

\* one modal declared in the tree, opened with and without keepMounted,
\* closed while it is open and opened again, each call and each
\* animation-end event coming when React has rendered the store
\* (commit(S) = S); the timers of markClosed are kept and fire in the order
\* they were set, at any time
InitTimers ==
  InitWith(Scenario({"m1"}, [id \in Ids |-> BOOLEAN], {FALSE}, {"undefined"},
                    0, FALSE, 0, TRUE, TRUE),
           {{"m1"}}, {{}})

NextTimers ==
  \/ \E id \in env.scope, user \in UserData, km \in BOOLEAN :
        commit(S) = S /\ Open(id, user, km, FALSE, FALSE)
  \/ \E id \in env.scope :
        commit(S) = S /\ modalStates[id] = "open" /\ Close(id)
  \/ \E id \in env.scope :
        commit(S) = S /\ Len(timers[id]) < MaxTimers /\ AnimationEnd(id)
  \/ Commit
  \/ \E id \in env.scope : PurgeTimer(id)

SpecTimers == InitTimers /\ [][NextTimers]_vars

\* two modals, m1 declared in the tree and m2 registered.  The application
\* opens a modal that is mounted or whose component it has unregistered,
\* closes, cleans up, and calls closeAll(), whose promise it awaits; while
\* it awaits it makes no call.  React renders the store, the continuation
\* of a settled await runs, and a mounted modal that has been hidden
\* signals animation-end: these three are the fair steps.
InitAwait ==
  InitWith(Scenario(StringIds, [id \in Ids |-> {FALSE}], {FALSE}, {"undefined"},
                    0, FALSE, MaxCloseAll, FALSE, FALSE),
           {{"m1"}}, {{}})

NextAwait ==
  \/ \E id \in env.scope, user \in UserData :
        /\ S.closeAlls = <<>>
        /\ id \in ALREADY_MOUNTED \/ MODAL_REGISTRY[id] = Unregistered
        /\ Open(id, user, FALSE, FALSE, FALSE)
  \/ \E id \in env.scope : S.closeAlls = <<>> /\ Close(id)
  \/ \E id \in env.scope : S.closeAlls = <<>> /\ Cleanup(id)
  \/ \E id \in env.scope : S.closeAlls = <<>> /\ Unregister(id)
  \/ S.closeAlls = <<>> /\ CloseAll(TRUE)
  \/ \E id \in env.scope : AnimationEnd(id)
  \/ Commit
  \/ \E k \in 1..MaxCloseAll : CloseAllResolve(k)

\* the mounted modal id is rendered hidden and its close has not completed
Hidden(id) ==
  /\ id \in ALREADY_MOUNTED
  /\ modalInfoRef[id].present
  /\ ~modalInfoRef[id].isOpen
  /\ modalStates[id] = "closing"

SpecAwait ==
  /\ InitAwait
  /\ [][NextAwait]_vars
  /\ WF_vars(Commit)
  /\ \A k \in 1..MaxCloseAll : WF_vars(CloseAllResolve(k))
  /\ \A id \in StringIds :
        []<>(~Hidden(id)) \/ []<><<AnimationEnd(id)>>_vars

\* the reducer on its own: every action on the stores it leads to, for
\* every set of mounted components
InitReducer ==
  InitWith(Scenario(StringIds, [id \in Ids |-> BOOLEAN], BOOLEAN, {"undefined"},
                    0, FALSE, 0, TRUE, FALSE),
           SUBSET StringIds, {{}})

NextReducer ==
  \/ \E id \in env.scope, user \in UserData, dc \in env.dcs :
        Reduce(actions_open(id, ModalData(user, InternalModalConfig(dc, FALSE))))
  \/ \E id \in env.scope : Reduce(actions_close(id))
  \/ \E id \in env.scope : Reduce(actions_remove(id))
  \/ \E id \in env.scope, km \in BOOLEAN :
        Reduce(actions_setFlags(id, [keepMounted |-> km]))
  \/ \E id \in env.scope, user \in UserData, dc \in env.dcs :
        Reduce(actions_setFlags(id,
                 [data |-> ModalData(user, InternalModalConfig(dc, FALSE))]))

SpecReducer == InitReducer /\ [][NextReducer]_vars

\* one modal rendered through the adapters, with and without their
\* disableClose option
InitAdapter ==
  InitWith(Scenario({"m1"}, [id \in Ids |-> {FALSE}], {FALSE}, {"undefined"},
                    0, FALSE, 0, TRUE, FALSE),
           SUBSET {"m1"}, {{}})

NextAdapter ==
  \/ \E id \in env.scope, user \in UserData : Open(id, user, FALSE, FALSE, FALSE)
  \/ \E id \in env.scope : AnimationEnd(id)
  \/ Commit
  \/ \E id \in env.scope, adapter \in RootAdapters, open, disableClose \in BOOLEAN :
        AdapterEvent(id, adapter, "onOpenChange", open, disableClose)
  \/ \E id \in env.scope, adapter \in RootAdapters, disableClose \in BOOLEAN :
        AdapterEvent(id, adapter, "onClose", FALSE, disableClose)
  \/ \E id \in env.scope, adapter \in ContentAdapters, disableClose \in BOOLEAN :
        AdapterEvent(id, adapter, "onEscapeKeyDown", FALSE, disableClose)
  \/ \E id \in env.scope, adapter \in ContentAdapters, disableClose \in BOOLEAN :
        AdapterEvent(id, adapter, "onPointerDownOutside", FALSE, disableClose)

SpecAdapter == InitAdapter /\ [][NextAdapter]_vars

\* ---------------------------------------------------------------- properties
\* the watched ModalRefs
WatchedRefs == 1..Len(refs)

\* C1: when ref.close(v) is called on the ModalRef of an open() before the
\* opened notification, the promise ref.afterClosed() returned is resolved
\* with v, by exactly one resolve call.
C1_CloseBeforeOpenedResolvesAfterClosed ==
  \A r \in WatchedRefs :
    refs[r].closeArg # "none" =>
      refs[r].closed.cell = [settled |-> TRUE, value |-> refs[r].closeArg, calls |-> 1]

\* C2: the promise afterClosed() returns is not resolved before the exit
\* animation completed or the modal was removed: while the lifecycle state
\* of a modal is "open" or "closing" its afterClosed() promise is pending.
C2_AfterClosedPendingUntilExitAnimation ==
  \A id \in Ids :
    (modalStates[id] \in {"open", "closing"} /\ closedPromises[id] # Absent) =>
      ~IsSettled(modalRef_afterClosed(S, id).cell)

\* C3: once afterClosed() yields a settled promise, every later call yields
\* a promise settled with the same value, also after the exit animation
\* ended, after a remove and after the delayed purge (steps that open the
\* modal again aside).
C3_AfterClosedKeepsItsValue ==
  [][\A id \in issued :
       (/\ IsSettled(modalRef_afterClosed(S, id).cell)
        /\ last'.op \notin {"open", "commit"}) =>
         modalRef_afterClosed(S', id).cell.value = modalRef_afterClosed(S, id).cell.value]_vars

\* C4: the promise of closeAll() is resolved only when, for every id that
\* was open or closing at the call, the close sequence has completed since
\* (animation-end 'closed' branch or remove).
C4_CloseAllWaitsForEveryClose ==
  \A k \in 1..Len(closeAlls) : closeAlls[k].done => closeAlls[k].remaining = {}

\* a closeAll() that closed both modals has resolved
C4_Witness ==
  \E k \in 1..Len(closeAlls) : closeAlls[k].done /\ closeAlls[k].ids = StringIds

CloseOps == {"refClose", "close", "handlerClose", "dismiss", "closeAll"}

\* C6: no deferred is reached by a second resolve call, and a close request
\* that comes after the afterClosed() promise settled leaves its value.
C6_AtMostOneResolve ==
  /\ [](/\ ~doubleResolve
        /\ \A id \in Ids : closedPromises[id].calls <= 1
        /\ \A id \in Ids, map \in LedgerMaps : S[map][id].calls <= 1)
  /\ [][\A id \in Ids :
         (IsSettled(closedPromises[id]) /\ last'.op \in CloseOps) =>
           closedPromises'[id] = closedPromises[id]]_vars

\* ModalRef.close("r1") and then dismiss() raced: the value stays "r1"
C6_Witness ==
  /\ last.op = "dismiss"
  /\ last.pre = "closing"
  /\ closedPromises[last.id] = [settled |-> TRUE, value |-> "r1", calls |-> 1]

\* the transitions of the lifecycle state machine, by the operation that
\* makes them; the animation-end 'closed' branch of a modal without
\* keepMounted goes on from "closed" to purged in the same callback
Allowed(pre, post, op) ==
  CASE op = "open" -> pre \in {"none", "closed"} /\ post = "open"
    [] op \in CloseOps -> pre = "open" /\ post = "closing"
    [] op = "animationClosed" -> pre = "closing" /\ post \in {"closed", "none"}
    [] op = "remove" -> post = "none"
    [] op = "purge" -> pre = "closed" /\ post = "none"
    [] OTHER -> FALSE

\* C7: the lifecycle state of an id changes only along
\* (unopened) -> open -> closing -> closed -> (purged), each transition by
\* its own operation, and by remove from any state to purged.
C7_LifecycleTransitions ==
  [][\A id \in Ids :
       modalStates'[id] # modalStates[id] =>
         Allowed(modalStates[id], modalStates'[id], last'.op)]_vars

\* C8: when the animation-end callback ran its 'opened' branch for the open
\* modal of a ModalRef, the promise the ref's afterOpened() returned is
\* resolved.
C8_AfterOpenedResolvesAtEnterAnimation ==
  \A r \in WatchedRefs : refs[r].notified => IsSettled(refs[r].opened.cell)

\* C9: once a close of the open modal of a ModalRef is requested, by any
\* path, the promise the ref's beforeClosed() returned is resolved.
C9_BeforeClosedResolvesAtCloseRequest ==
  \A r \in WatchedRefs : refs[r].phase = "closing" => IsSettled(refs[r].before.cell)

\* C10: when the beforeClosed() and the afterClosed() promise of a ModalRef
\* are both settled, they are settled with the same value.
C10_BeforeClosedAndAfterClosedAgree ==
  \A r \in WatchedRefs :
    (IsSettled(refs[r].before.cell) /\ IsSettled(refs[r].closed.cell)) =>
      refs[r].before.cell.value = refs[r].closed.cell.value

KeepMountedSet(id) == modals[id].keepMounted \/ id \in keepMountedProp

\* C12: when keepMounted is set for a modal, the animation-end callback
\* that follows a close leaves the store entry, with isOpen = false, and the
\* entry disappears only through remove(). Stated for a wrapper that has
\* rendered the current store entry.
C12_KeepMountedStaysAfterAnimationEnd ==
  [][\A id \in Ids :
       (modals[id].present /\ KeepMountedSet(id) /\ modalInfoRef[id] = modals[id]) =>
         /\ (last'.op = "animationClosed" /\ last'.id = id /\ last'.pre = "closing") =>
              (modals'[id].present /\ ~modals'[id].isOpen)
         /\ ~modals'[id].present => (last'.op = "remove" /\ last'.id = id)]_vars

\* a close of id was requested and its entry awaits the animation-end event
AwaitsExit(id) ==
  /\ modalStates[id] = "closing"
  /\ modals[id].present /\ ~modals[id].isOpen /\ ~KeepMountedSet(id)

\* C13: for a modal without keepMounted a close request leaves the store
\* entry, with isOpen = false; the entry stays so until the animation-end
\* event (or a remove or an open of the caller); the animation-end callback
\* of a wrapper that rendered that entry then removes the entry, resolves
\* the close promise and purges the ledger entries of the id.
C13_EntryStaysUntilAnimationEnd ==
  [][\A id \in Ids :
       /\ (modalStates[id] = "open" /\ modals[id].present /\ ~KeepMountedSet(id)
             /\ last'.op \in CloseOps /\ last'.id = id) =>
            (modals'[id].present /\ ~modals'[id].isOpen)
       /\ (AwaitsExit(id) /\ last'.op \notin {"animationClosed", "remove", "open"}) =>
            (modals'[id].present /\ ~modals'[id].isOpen)
       /\ (AwaitsExit(id) /\ modalInfoRef[id] = modals[id]
             /\ last'.op = "animationClosed" /\ last'.id = id) =>
            /\ ~modals'[id].present
            /\ last'.was["hideModalCallbacks"] = "pending" =>
                 last'.now["hideModalCallbacks"] # "pending"
            /\ \A map \in LedgerMaps : S'[map][id] = Absent]_vars

\* id was never opened, or was closed and removed or purged
Idle(id) ==
  /\ ~modals[id].present
  /\ modalStates[id] \in {"none", "closed"}
  /\ \A map \in LedgerMaps : S[map][id] = Absent

\* C14: close(id), remove(id) and setFlags(id, flags) on an id that was
\* never opened, or was closed and removed or purged, change neither the
\* store nor what getState(), getOpen() and hasOpen() answer.
C14_IdleIdNoOp ==
  [][\A id \in Ids :
       (Idle(id) /\ last'.op \in {"close", "remove", "setFlags"} /\ last'.id = id) =>
         /\ modals' = modals
         /\ modalRef_getState(S', id) = "closed"
         /\ getOpenModals(S') = getOpenModals(S)
         /\ hasOpenModals(S') = hasOpenModals(S)]_vars

\* C15: ModalRef.close(result) called while getState() answers "closed"
\* dispatches no action, creates and resolves no ledger entry, and leaves
\* getState() at "closed" and the id out of getOpen().
C15_RefCloseWhenClosedNoOp ==
  [][\A id \in Ids :
       (modalRef_getState(S, id) = "closed"
          /\ last'.op = "refClose" /\ last'.id = id) =>
         /\ last'.dispatched = <<>>
         /\ \A map \in LedgerMaps : S'[map][id] = S[map][id]
         /\ modalRef_getState(S', id) = "closed"
         /\ id \notin getOpenModals(S')]_vars

\* C16: open, close and remove called while no provider has installed a
\* dispatch throw the Error 'No dispatch method detected...' out of the call.
C16_NoDispatchThrows ==
  [][(dispatchFn = "default" /\ last'.op \in {"open", "close", "remove"}) =>
       last'.thrown = NoDispatchError]_vars

C16_Witness ==
  /\ dispatchFn = "default"
  /\ last.op \in {"open", "close", "remove"}
  /\ last.thrown = NoDispatchError

\* C17: an open(id) that returned puts id into getOpen() and makes
\* hasOpen() true; id stays in getOpen() until its exit animation completed
\* or it was removed; an id that is not in getOpen() (never opened, closed
\* or removed) enters it only through open(id); hasOpen() is true exactly
\* when getOpen() is not empty.
C17_GetOpenFollowsOpen ==
  [][\A id \in Ids :
       /\ (last'.op = "open" /\ last'.id = id /\ last'.thrown = "none") =>
            (id \in getOpenModals(S') /\ hasOpenModals(S'))
       /\ (id \in getOpenModals(S)
             /\ ~(last'.op \in {"animationClosed", "remove"} /\ last'.id = id)) =>
            id \in getOpenModals(S')
       /\ (id \notin getOpenModals(S) /\ id \in getOpenModals(S')) =>
            (last'.op = "open" /\ last'.id = id)
       /\ hasOpenModals(S') <=> (getOpenModals(S') # {})]_vars

\* C18: while the modal of an open(id, {disableClose: d}) stays open, the
\* configuration stored for it has disableClose = d, also after the
\* component mounted and the delayed open was replayed, and after an
\* assignment ref.disableClose = v both the getter of the ModalRef and the
\* stored configuration have v: as long as the ModalRef is the one of the
\* open modal, the stored disableClose is the one its getter returns.
C18_StoredDisableCloseIsTheRefs ==
  \A r \in WatchedRefs :
    (refs[r].phase = "open" /\ modals[refs[r].modalId].present) =>
      modals[refs[r].modalId].data.config.disableClose = refs[r].disableClose

\* C19: what the binding layer hands to a rendered modal as user data
\* (the value of useModalData(), the data field of the useModal() handler
\* and the props the createModal wrapper merges into the component) does
\* not have the reserved internal configuration key.
C19_InternalKeyNotExposed ==
  \A id \in ALREADY_MOUNTED :
    modalInfoRef[id].present =>
      /\ MODAL_CONFIG_KEY \notin DOMAIN useModalData(modalInfoRef[id])
      /\ MODAL_CONFIG_KEY \notin DOMAIN useModal_data(modalInfoRef[id])
      /\ MODAL_CONFIG_KEY \notin DOMAIN mergedProps(<<>>, modalInfoRef[id])

\* the registry entries of the component comp
RegisteredAs(registry, comp) == {id \in Ids : registry[id].comp = comp}

\* C20: open(A) of a component A that has no registry entry registers A
\* under the id cached on A; an open(A) that finds A registered leaves
\* exactly one registry entry for A; getModalId returns a string argument
\* as it is, and for a component the id cached on it, which never changes.
C20_OpenRegistersComponentOnce ==
  [][\A comp \in Components :
       /\ (last'.op = "open" /\ last'.arg = comp
             /\ RegisteredAs(MODAL_REGISTRY, comp) = {}) =>
            /\ symModalId'[comp] # "none"
            /\ RegisteredAs(MODAL_REGISTRY', comp) = {symModalId'[comp]}
       /\ (last'.op = "open" /\ last'.arg = comp
             /\ Cardinality(RegisteredAs(MODAL_REGISTRY, comp)) = 1) =>
            RegisteredAs(MODAL_REGISTRY', comp) = RegisteredAs(MODAL_REGISTRY, comp)
       /\ \A id \in StringIds : getModalId(S, id) = [s |-> S, id |-> id]
       /\ symModalId[comp] # "none" => symModalId'[comp] = symModalId[comp]
       /\ (last'.op = "getModalId" /\ last'.arg = comp) =>
            last'.id = symModalId'[comp]]_vars

\* C21: register(id, c, p) gives an id without entry the entry (c, p) and
\* replaces only the props of an existing entry, leaves the other entries,
\* and done twice gives what it gives done once; unregister(id) deletes the
\* entry of id and leaves the other entries.
C21_RegisterIsUpsert ==
  [][/\ \A id \in Ids, comp \in Components, props \in Props :
          LET once == register(S, id, comp, props) IN
          /\ once.MODAL_REGISTRY[id] =
               [comp |-> IF MODAL_REGISTRY[id] = Unregistered
                         THEN comp ELSE MODAL_REGISTRY[id].comp,
                props |-> props]
          /\ \A other \in Ids \ {id} :
               once.MODAL_REGISTRY[other] = MODAL_REGISTRY[other]
          /\ register(once, id, comp, props) = once
          /\ unregister(S, id).MODAL_REGISTRY =
               [other \in Ids |-> IF other = id THEN Unregistered
                                  ELSE MODAL_REGISTRY[other]]
     /\ last'.op = "register" =>
          MODAL_REGISTRY' = register(S, last'.id, last'.arg,
                                     MODAL_REGISTRY'[last'.id].props).MODAL_REGISTRY
     /\ last'.op = "unregister" =>
          MODAL_REGISTRY' = unregister(S, last'.id).MODAL_REGISTRY]_vars

\* a register on an existing entry kept the component and replaced the props
C21_Witness ==
  /\ last.op = "register"
  /\ MODAL_REGISTRY[last.id].comp \notin {"none", last.arg}
  /\ MODAL_REGISTRY[last.id].props = "p1"

\* the reducer ran on an action of the type for last.id
Reduced(l, type) == l.op = "dispatch" /\ l.arg.type = type

\* C22: the reducer's show(id, data) gives id an entry with the given data,
\* with isOpen = (id is in the mounted table) and delayOpen = (id is not in
\* it), keeps the other flags the entry had (keepMounted), and leaves the
\* entries of the other ids.
C22_ShowSetsEntry ==
  [][Reduced(last', "show") =>
       LET id == last'.id IN
       /\ modals'[id].present
       /\ modals'[id].data = last'.arg.data
       /\ modals'[id].isOpen = (id \in ALREADY_MOUNTED)
       /\ modals'[id].delayOpen = (id \notin ALREADY_MOUNTED)
       /\ modals'[id].keepMounted = modals[id].keepMounted
       /\ \A other \in Ids \ {id} : modals'[other] = modals[other]]_vars

\* a show on an entry that had keepMounted and other data, its component
\* not mounted, next to a visible entry of another id
C22_Witness ==
  /\ Reduced(last, "show")
  /\ modals[last.id].keepMounted
  /\ modals[last.id].data.config.disableClose
  /\ modals[last.id].delayOpen
  /\ \E other \in Ids \ {last.id} : modals[other].isOpen

\* C23: hide(id) and setFlags(id, flags) on a store without an entry for id
\* return the state they were given, with no entry made; on an entry hide
\* only sets isOpen to false and setFlags only overwrites the given flags:
\* the other fields and the entries of the other ids stay.
C23_HideAndSetFlagsFrame ==
  [][LET id == last'.id
         flags == last'.arg.flags
     IN /\ (Reduced(last', "hide") \/ Reduced(last', "set-flags"))
             /\ ~modals[id].present
           => last'.returned = <<TRUE>> /\ modals' = modals
        /\ Reduced(last', "hide") /\ modals[id].present
           => modals' = [modals EXCEPT ![id].isOpen = FALSE]
        /\ Reduced(last', "set-flags") /\ modals[id].present
           => /\ \A f \in DOMAIN modals[id] :
                   modals'[id][f] = IF f \in DOMAIN flags THEN flags[f]
                                    ELSE modals[id][f]
              /\ \A other \in Ids \ {id} : modals'[other] = modals[other]]_vars

\* a set-flags on an id without entry, next to the entry of another id
C23_Witness ==
  /\ Reduced(last, "set-flags")
  /\ last.returned = <<TRUE>>
  /\ ~modals[last.id].present
  /\ \E other \in Ids \ {last.id} : modals[other].present

\* C24: the reducer returns a state object other than the one it was given
\* only when the action changes the state; remove(id) on a store without an
\* entry for id returns the state it was given, and on an entry deletes
\* that entry only.
C24_NewStateOnlyOnChange ==
  [][last'.op = "dispatch" =>
       /\ last'.returned = <<FALSE>> => modals' # modals
       /\ Reduced(last', "remove") =>
            IF modals[last'.id].present
            THEN modals' = [modals EXCEPT ![last'.id] = NoEntry]
            ELSE last'.returned = <<TRUE>> /\ modals' = modals]_vars

\* C25: the open prop of every adapter is modal.isOpen; onOpenChange(false),
\* onClose, the escape-key handler and the pointer-down-outside handler call
\* modal.dismiss() exactly once when disableClose is not set and never when
\* it is set (the content handlers then call preventDefault);
\* onOpenChange(true) never calls dismiss.
C25_AdaptersDismissUnlessDisabled ==
  [][/\ \A id \in env.scope, adapter \in RootAdapters :
          adapter_open(adapter, useModal(id, modalInfoRef[id]))
            = (modalInfoRef[id].present /\ modalInfoRef[id].isOpen)
     /\ last'.op \in UNION {AdapterEvents(adapter) :
                               adapter \in RootAdapters \cup ContentAdapters} =>
          LET arg == last'.arg
              dismissed == Cardinality({i \in DOMAIN arg.calls :
                                          arg.calls[i] = "dismiss"})
          IN /\ dismissed = Len(SelectSeq(last'.dispatched,
                                          LAMBDA type : type = "hide"))
             /\ dismissed =
                  IF arg.disableClose \/ (last'.op = "onOpenChange" /\ arg.open)
                  THEN 0 ELSE 1
             /\ arg.adapter \in ContentAdapters /\ arg.disableClose =>
                  arg.calls = <<"preventDefault">>]_vars

\* the escape key on an open modal dismissed it
C25_Witness ==
  /\ last.op = "onEscapeKeyDown"
  /\ ~last.arg.disableClose
  /\ last.pre = "open"
  /\ last.dispatched = <<"hide">>
  /\ modalStates[last.id] = "closing"
  /\ ~modals[last.id].isOpen

\* C26: in every reachable state a store entry with isOpen = true belongs to
\* an id whose component is mounted (is in ALREADY_MOUNTED), whatever the
\* sequence of open, updateData, close, remove, mount, unmount and
\* unregister.
C26_OpenEntryIsMounted ==
  \A id \in Ids :
     modals[id].present /\ modals[id].isOpen => id \in ALREADY_MOUNTED

\* C27: when open(id) was requested before the component mounted (entry
\* with delayOpen = true, isOpen = false) and the component then mounts, the
\* wrapper opens again: the entry ends with delayOpen = false and isOpen =
\* true; delayOpen is not true any more once the mounted component has
\* seen it.
C27_DelayedOpenReplayed ==
  [][/\ last'.op = "commit" =>
          \A id \in env.scope :
             modals[id].present /\ modals[id].delayOpen =>
               /\ modals'[id].present
               /\ modals'[id].isOpen
               /\ ~modals'[id].delayOpen
     /\ \A id \in env.scope :
          id \in ALREADY_MOUNTED' /\ modals'[id].present =>
            ~modals'[id].delayOpen]_vars

\* the render saw delayOpen and the entry is open after its effects
C27_Witness ==
  /\ last.op = "commit"
  /\ modalInfoRef["m1"].present
  /\ modalInfoRef["m1"].delayOpen
  /\ ~modalInfoRef["m1"].isOpen
  /\ modals["m1"].isOpen
  /\ ~modals["m1"].delayOpen
  /\ "m1" \in ALREADY_MOUNTED

\* C28: the animation-end callback of id takes the branch of the store's
\* isOpen at the moment it is called: with isOpen true it only resolves the
\* opened promise; with isOpen false it marks the modal closed, resolves the
\* close promise and, unless keepMounted, removes the modal.  A popover
\* adapter calls it right after dismiss, when the store's isOpen is false.
C28_AnimationEndFollowsStore ==
  [][LET id == last'.id IN
     /\ last'.op \in {"animationOpened", "animationClosed"} =>
          (last'.op = "animationOpened") = (modals[id].present /\ modals[id].isOpen)
     /\ last'.op = "animationOpened" =>
          /\ modals' = modals
          /\ modalStates' = modalStates
          /\ openedCallbacks'[id] = Absent
     /\ last'.op = "animationClosed" =>
          /\ hideModalCallbacks'[id] = Absent
          /\ IF modalInfoRef[id].keepMounted
             THEN modalStates'[id] = "closed" /\ modals' = modals
             ELSE ~modals'[id].present
     /\ last'.op = "onOpenChange" /\ Len(last'.arg.calls) = 2 =>
          modalStates'[id] # "closing"]_vars

C30_ClosedBeforeMountStaysClosed ==
  [][\A id \in env.scope :
       /\ modals[id].present
       /\ modals[id].delayOpen
       /\ modalStates[id] = "closing"
       /\ last'.op # "open"
       => /\ ~modals'[id].isOpen
          /\ modalStates'[id] # "open"]_vars

\* C31: an open() on an id that has pending deferreds orphans no promise:
\* a promise that afterOpened(), beforeClosed() or afterClosed() of a
\* ModalRef handed out and that is still pending is one the ledger holds,
\* so that notifyOpened, close, animation-end or remove of the id resolve it.
C31_NoOrphanedPromise ==
  \A r \in WatchedRefs :
    \A field \in {"opened", "before", "closed"} :
       ~IsSettled(refs[r][field].cell) => refs[r][field].linked

\* C32: when a modal whose close was requested is opened again before the
\* animation-end of the exit animation arrived (lifecycle state open with
\* the close promise of the close still pending, the open being the last
\* operation but for renders), the animation-end that arrives then neither
\* resolves the opened promise of the new open nor closes or removes the
\* modal.
C32_LateAnimationEndAfterReopen ==
  [][\A id \in env.scope :
       /\ modalStates[id] = "open"
       /\ hideModalCallbacks[id] = Pending
       /\ last.op \in {"open", "commit"}
       /\ last'.op \in {"animationOpened", "animationClosed"}
       /\ last'.id = id
       => /\ openedCallbacks'[id] = openedCallbacks[id]
          /\ modalStates'[id] = "open"
          /\ modals'[id] = modals[id]]_vars

\* C33: ModalRef.updateData(partial) changes only the data of the store
\* entry of the modal: isOpen, delayOpen and keepMounted of the entry and
\* the lifecycle state are as before; a modal that is closing, or closed
\* and kept mounted, is not made visible and an entry that was removed is
\* not made again.
C33_UpdateDataChangesOnlyData ==
  [][\A r \in WatchedRefs :
       refs'[r].data # refs[r].data =>
         LET id == refs[r].modalId IN
         /\ modals'[id].present = modals[id].present
         /\ modals'[id].isOpen = modals[id].isOpen
         /\ modals'[id].delayOpen = modals[id].delayOpen
         /\ modals'[id].keepMounted = modals[id].keepMounted
         /\ modalStates'[id] = modalStates[id]]_vars

\* C34: when open() or close() throws because no dispatch is installed, the
\* state is as before the call: no lifecycle state is recorded for the id
\* (getOpen() and hasOpen() are unchanged), no registry entry is added and
\* no deferred is created.
C34_ThrowLeavesStateUnchanged ==
  [][(last'.op \in {"open", "close"} /\ last'.thrown = NoDispatchError) =>
       /\ modalStates' = modalStates
       /\ getOpenModals(S') = getOpenModals(S)
       /\ hasOpenModals(S') = hasOpenModals(S)
       /\ MODAL_REGISTRY' = MODAL_REGISTRY
       /\ closedPromises' = closedPromises
       /\ \A map \in LedgerMaps : S'[map] = S[map]]_vars

\* C35: a purge timer set by markClosed for an earlier open/close cycle of an
\* id deletes neither the lifecycle state nor the closed-promise mapping that
\* a later cycle of the same id produced: when such a timer fires, both are
\* left as they were.
C35_EarlierTimerSparesLaterCycle ==
  [][\A id \in env.scope :
       /\ timers[id] # <<>>
       /\ Head(timers[id]) = "earlier"
       /\ last'.op = "purge"
       /\ last'.id = id
       => /\ modalStates'[id] = modalStates[id]
          /\ closedPromises'[id] = closedPromises[id]]_vars

\* C36: when a popover adapter's onOpenChange(false) runs without
\* disableClose on an open modal, it calls dismiss() and then
\* onAnimationEnd() in the same event, and the event completes the close
\* sequence: the lifecycle state is closed (or deleted with the removed
\* modal), the hide promise is resolved and, unless keepMounted, the modal
\* is removed from the store.
C36_PopoverCloseCompletes ==
  [][LET id == last'.id IN
     /\ last'.op = "onOpenChange"
     /\ last'.arg.adapter \in PopoverAdapters
     /\ ~last'.arg.open
     /\ ~last'.arg.disableClose
     /\ modalStates[id] = "open"
     => /\ last'.arg.calls = <<"dismiss", "onAnimationEnd">>
        /\ modalStates'[id] \in {"closed", "none"}
        /\ hideModalCallbacks'[id] # Pending
        /\ ~modalInfoRef[id].keepMounted => ~modals'[id].present]_vars

\* C37: when every mounted modal keeps signalling animation-end and React
\* keeps rendering, a closeAll() call that is awaited eventually resolves,
\* whatever was called before it: open of an id with no registered
\* component, close of an id never opened, cleanup of an id.
C37_CloseAllEventuallyResolves ==
  (S.closeAlls # <<>>) ~> (\E k \in 1..Len(closeAlls) : closeAlls[k].done)

\* C38: successive getUid() calls return `_modal_` with a counter that goes
\* up by one each call, so the ids are pairwise distinct; a component that
\* gets a generated id gets the one of the current counter, different from
\* the id of every other component as long as no resetUidSeed() took the
\* counter back (the counter then equals the number of components that
\* hold an id); and only resetUidSeed() takes the counter down, to 0.
C38_GeneratedIdsDistinct ==
  [][/\ LET ids == getUids(S, MaxUid) IN
          \A i, j \in 1..MaxUid :
             /\ ids[i] = Uid(uidSeed + i - 1)
             /\ i # j => ids[i] # ids[j]
     /\ \A comp \in Components :
          symModalId'[comp] # symModalId[comp] =>
            /\ last'.op # "resetUidSeed"
            /\ symModalId'[comp] = Uid(uidSeed)
            /\ uidSeed' = uidSeed + 1
            /\ uidSeed = Cardinality({c \in Components : symModalId[c] # "none"}) =>
                 \A c \in Components \ {comp} : symModalId'[c] # symModalId'[comp]
     /\ uidSeed' < uidSeed => last'.op = "resetUidSeed" /\ uidSeed' = 0]_vars

\* two components hold generated ids and the counter was never reset
C38_Witness ==
  /\ uidSeed = 2
  /\ \A comp \in Components : symModalId[comp] # "none"
  /\ last.op \in {"open", "getModalId"}

====
